---- MODULE Spec2Model ----
(***************************************************************************)
(* Izhikevich spiking-network simulator (src/src/neuron.rs,                *)
(* src/src/simulator.rs, src/src/main.rs).                                 *)
(*                                                                         *)
(* f64 values are modelled by a small binary format: a finite value is an  *)
(* integer count of 2^-FracBits units with magnitude at most MaxFinite;    *)
(* a result beyond that magnitude is +inf or -inf, and inf - inf and       *)
(* 0 * inf are NaN, as in IEEE 754.  Every arithmetic operation rounds to  *)
(* the nearest representable value.                                        *)
(*                                                                         *)
(* Sequences are 1-based: neuron k of the source is neuron k + 1 here and  *)
(* action_potentials[t] of the source is action_potentials[t + 1].         *)
(*                                                                         *)
(* WorldState::step is three kinds of step: StepBegin (the noise draw and  *)
(* the clone of the previous vector), one ParStep per neuron in any order  *)
(* (the closures of the parallel map), and StepEnd (collect, the counter   *)
(* and the push).                                                          *)
(***************************************************************************)
EXTENDS Integers, Sequences, FiniteSets, TLC

VARIABLES
    args,               \* the (excitatory, inhibitory) pair given to WorldState::new
    connection_matrix,  \* the local connection_matrix of WorldState::new
    neurons,            \* WorldState.neurons
    action_potentials,  \* WorldState.action_potentials
    time_step,          \* WorldState.time_step
    pc,                 \* where WorldState::step is: "idle", "par" or "panicked"
    thalamic_input,     \* local of step: this tick's noise samples
    synaptic_input,     \* local of step: the snapshot handed to every neuron
    spikes,             \* results collected so far by the parallel map
    done,               \* indices whose closure has run in this tick
    seen,               \* per neuron: the synaptic_input slice its step was given
    current,            \* per neuron: the synaptic sum its step added to i
    pre,                \* neurons as they were when the tick began
    neurons0,           \* neurons as WorldState::new returned them
    thal_log,           \* every thalamic_input vector drawn so far
    ctor_in,            \* constructor call under test: path, type and draw r
    fresh               \* the neuron that call returned (empty before the call)

vars == <<args, connection_matrix, neurons, action_potentials, time_step, pc,
          thalamic_input, synaptic_input, spikes, done, seen, current, pre,
          neurons0, thal_log, ctor_in, fresh>>

worldVars == <<args, connection_matrix, neurons, action_potentials, time_step, pc,
               thalamic_input, synaptic_input, spikes, done, seen, current, pre,
               neurons0, thal_log>>

----------------------------------------------------------------------------
(* Bounds of the model *)

FracBits == 8
MaxFinite == 512
MaxNeurons == 2
MaxTicks == 4

----------------------------------------------------------------------------
(* f64 arithmetic *)

Scale == 2 ^ FracBits
Lim == MaxFinite * Scale

Abs(x) == IF x < 0 THEN -x ELSE x

\* a / b rounded to the nearest integer (b > 0)
RoundDiv(a, b) == (2 * a + b) \div (2 * b)

F(x) == [k |-> "fin", x |-> x]
PInf == [k |-> "pinf", x |-> 0]
NInf == [k |-> "ninf", x |-> 0]
NaN == [k |-> "nan", x |-> 0]

IsFinite(a) == a.k = "fin"
IsNaN(a) == a.k = "nan"

\* the value num/den as the nearest f64 of the model
Lit(num, den) == F(RoundDiv(num * Scale, den))

\* an exact integer result n (in units) as a value, overflowing to +-inf
Norm(n) == IF n > Lim THEN PInf ELSE IF n < -Lim THEN NInf ELSE F(n)

Sgn(a) ==
    CASE a.k = "pinf" -> 1
      [] a.k = "ninf" -> -1
      [] a.k = "fin" -> IF a.x > 0 THEN 1 ELSE IF a.x < 0 THEN -1 ELSE 0
      [] OTHER -> 0

Neg(a) ==
    CASE a.k = "fin" -> F(-a.x)
      [] a.k = "pinf" -> NInf
      [] a.k = "ninf" -> PInf
      [] OTHER -> NaN

Add(a, b) ==
    CASE IsNaN(a) \/ IsNaN(b) -> NaN
      [] IsFinite(a) /\ IsFinite(b) -> Norm(a.x + b.x)
      [] IsFinite(a) -> b
      [] IsFinite(b) -> a
      [] a.k = b.k -> a
      [] OTHER -> NaN

Sub(a, b) == Add(a, Neg(b))

Mul(a, b) ==
    CASE IsNaN(a) \/ IsNaN(b) -> NaN
      [] IsFinite(a) /\ IsFinite(b) ->
            IF a.x = 0 \/ b.x = 0 THEN F(0)
            ELSE IF Abs(b.x) > (Lim * Scale + Scale) \div Abs(a.x)
                 THEN (IF Sgn(a) * Sgn(b) > 0 THEN PInf ELSE NInf)
                 ELSE Norm(RoundDiv(a.x * b.x, Scale))
      [] Sgn(a) * Sgn(b) = 0 -> NaN
      [] Sgn(a) * Sgn(b) > 0 -> PInf
      [] OTHER -> NInf

\* a >= b on f64: false whenever either side is NaN
Ge(a, b) ==
    CASE IsNaN(a) \/ IsNaN(b) -> FALSE
      [] IsFinite(a) /\ IsFinite(b) -> a.x >= b.x
      [] a.k = "pinf" -> TRUE
      [] b.k = "ninf" -> TRUE
      [] OTHER -> FALSE

Lt(a, b) == ~IsNaN(a) /\ ~IsNaN(b) /\ ~Ge(a, b)

----------------------------------------------------------------------------
(* neuron.rs: parameters and the two constructors *)

SynapseType == {"Excitatory", "Inhibitory"}
NeuronType == {"Regular", "IntrinsicallyBursting", "Chattering",
               "FastSpiking", "LowThresholdSpiking"}

NeuronTypeToSynapseType(neuron_type) ==
    IF neuron_type \in {"Regular", "IntrinsicallyBursting", "Chattering"}
    THEN "Excitatory" ELSE "Inhibitory"

REGULAR_PARAMS ==
    [a |-> Lit(2, 100), b |-> Lit(2, 10), c |-> Lit(-65, 1), d |-> Lit(2, 1)]
INTRINSICALLY_BURSTING_PARAMS ==
    [a |-> Lit(2, 100), b |-> Lit(2, 10), c |-> Lit(-55, 1), d |-> Lit(4, 1)]
CHATTERING_PARAMS ==
    [a |-> Lit(2, 100), b |-> Lit(2, 10), c |-> Lit(-50, 1), d |-> Lit(2, 1)]
FAST_SPIKING_PARAMS ==
    [a |-> Lit(1, 10), b |-> Lit(2, 10), c |-> Lit(-65, 1), d |-> Lit(2, 1)]
LOW_THRESHOLD_SPIKING_PARAMS ==
    [a |-> Lit(1, 10), b |-> Lit(25, 100), c |-> Lit(-55, 1), d |-> Lit(2, 1)]

params(neuron_type) ==
    CASE neuron_type = "Regular" -> REGULAR_PARAMS
      [] neuron_type = "IntrinsicallyBursting" -> INTRINSICALLY_BURSTING_PARAMS
      [] neuron_type = "Chattering" -> CHATTERING_PARAMS
      [] neuron_type = "FastSpiking" -> FAST_SPIKING_PARAMS
      [] neuron_type = "LowThresholdSpiking" -> LOW_THRESHOLD_SPIKING_PARAMS

\* every value rng.gen::<f64>() can return: gen draws 53 random bits, a
\* multiple of 2^-53 in [0, 1), which f64 halves exactly; here the even
\* unit counts below 1
GenRange == {F(2 * x) : x \in 0 .. (Scale \div 2) - 1}

\* c = -65. + 15. * r * r,  d = 8. - 6. * r * r
ExcitatoryC(r) == Add(Lit(-65, 1), Mul(Mul(Lit(15, 1), r), r))
ExcitatoryD(r) == Sub(Lit(8, 1), Mul(Mul(Lit(6, 1), r), r))
\* a = 0.02 + 0.08 * r,  b = 0.25 - 0.05 * r
InhibitoryA(r) == Add(Lit(2, 100), Mul(Lit(8, 100), r))
InhibitoryB(r) == Sub(Lit(25, 100), Mul(Lit(5, 100), r))

from_synapse_type(synapse_type, r) ==
    LET p == IF synapse_type = "Excitatory"
             THEN [a |-> Lit(2, 100), b |-> Lit(2, 10),
                   c |-> ExcitatoryC(r), d |-> ExcitatoryD(r)]
             ELSE [a |-> InhibitoryA(r), b |-> InhibitoryB(r),
                   c |-> Lit(-65, 1), d |-> Lit(2, 1)]
    IN  [parameters |-> p,
         synapse_type |-> synapse_type,
         connection_weights |-> <<>>,
         v |-> Lit(-65, 1),
         u |-> Mul(p.b, Lit(-65, 1))]

from_neuron_type(neuron_type, r) ==
    LET parameters == params(neuron_type)
        synapse_type == NeuronTypeToSynapseType(neuron_type)
        p == IF synapse_type = "Excitatory"
             THEN [a |-> parameters.a, b |-> parameters.b,
                   c |-> ExcitatoryC(r), d |-> ExcitatoryD(r)]
             ELSE [a |-> InhibitoryA(r), b |-> InhibitoryB(r),
                   c |-> Lit(-65, 1), d |-> Lit(2, 1)]
    IN  [parameters |-> p,
         synapse_type |-> synapse_type,
         connection_weights |-> <<>>,
         v |-> Lit(-65, 1),
         u |-> Mul(parameters.b, Lit(-65, 1))]

connect(neuron, connection_weights) ==
    [neuron EXCEPT !.connection_weights = connection_weights]

----------------------------------------------------------------------------
(* neuron.rs: Neuron::step *)

Min(a, b) == IF a < b THEN a ELSE b

\* the zip/filter/map/sum chain: weights at the indices whose flag is set,
\* added in index order starting from 0.0; zip stops at the shorter sequence
RECURSIVE SumUpTo(_, _, _)
SumUpTo(syn, weights, k) ==
    IF k = 0 THEN F(0)
    ELSE LET s == SumUpTo(syn, weights, k - 1)
         IN  IF syn[k] THEN Add(s, weights[k]) ELSE s

SynapticSum(syn, weights) == SumUpTo(syn, weights, Min(Len(syn), Len(weights)))

\* thalamic_input * 5. for excitatory cells, * 2. for inhibitory ones
BaseCurrent(synapse_type, thalamic) ==
    IF synapse_type = "Excitatory" THEN Mul(thalamic, Lit(5, 1))
    ELSE Mul(thalamic, Lit(2, 1))

\* v + 0.5 * ((0.04 * v * v) + (5. * v) + 140. - u + i)
HalfStep(v, u, i) ==
    Add(v, Mul(Lit(1, 2),
               Add(Sub(Add(Add(Mul(Mul(Lit(4, 100), v), v), Mul(Lit(5, 1), v)),
                           Lit(140, 1)),
                       u),
                   i)))

\* u + a * ((b * v) - u)
Recover(p, v, u) == Add(u, Mul(p.a, Sub(Mul(p.b, v), u)))

Threshold == Lit(30, 1)

\* variant: on a spike, d is added to the u the call started with
stepStaleU(neuron, thalamic, syn) ==
    LET s  == SynapticSum(syn, neuron.connection_weights)
        i  == Add(BaseCurrent(neuron.synapse_type, thalamic), s)
        v1 == HalfStep(neuron.v, neuron.u, i)
        v2 == HalfStep(v1, neuron.u, i)
        u1 == Recover(neuron.parameters, v2, neuron.u)
    IN  IF Ge(v2, Threshold)
        THEN [neuron |-> [neuron EXCEPT !.v = neuron.parameters.c,
                                        !.u = Add(neuron.u, neuron.parameters.d)],
              spike |-> TRUE, syn_sum |-> s]
        ELSE [neuron |-> [neuron EXCEPT !.v = v2, !.u = u1],
              spike |-> FALSE, syn_sum |-> s]

\* Neuron::step: the neuron after the call, the returned flag, and the
\* synaptic sum that was added to i
step(neuron, thalamic, syn) ==
    LET s  == SynapticSum(syn, neuron.connection_weights)
        i  == Add(BaseCurrent(neuron.synapse_type, thalamic), s)
        v1 == HalfStep(neuron.v, neuron.u, i)
        v2 == HalfStep(v1, neuron.u, i)
        u1 == Recover(neuron.parameters, v2, neuron.u)
    IN  IF Ge(v2, Threshold)
        THEN [neuron |-> [neuron EXCEPT !.v = neuron.parameters.c,
                                        !.u = Add(u1, neuron.parameters.d)],
              spike |-> TRUE, syn_sum |-> s]
        ELSE [neuron |-> [neuron EXCEPT !.v = v2, !.u = u1],
              spike |-> FALSE, syn_sum |-> s]

----------------------------------------------------------------------------
(* simulator.rs: WorldState::new *)

\* the draws enumerated when a whole network is built and stepped: two
\* values of gen() for the parameters, two for the weights, and two samples
\* of the standard normal for the noise
ParamDraws == {F(0), F(Scale \div 2)}
WeightDraws == {F(2), F(Scale - 2)}
ThalamicDraws == {Lit(-1, 1), Lit(10, 1)}

\* variant: no test for self-connections
CellNoSelfTest(i, j, excitatory, raw) ==
    IF j <= excitatory THEN Mul(Lit(1, 2), raw) ELSE Neg(raw)

\* cell (i, j) of connection_matrix; indices are 1-based here, so the
\* source's j < excitatory is j <= excitatory
Cell(i, j, excitatory, raw) ==
    IF i # j
    THEN IF j <= excitatory THEN Mul(Lit(1, 2), raw) ELSE Neg(raw)
    ELSE F(0)

ConnectionMatrix(n, excitatory, raws) ==
    [i \in 1 .. n |-> [j \in 1 .. n |-> Cell(i, j, excitatory, raws[i][j])]]

\* the neuron list before connect: excitatory cells first, then inhibitory
Population(excitatory, inhibitory, rs) ==
    [k \in 1 .. excitatory + inhibitory |->
        from_synapse_type(IF k <= excitatory THEN "Excitatory" ELSE "Inhibitory",
                          rs[k])]

\* variant: neuron i is given column i
ConnectedByColumn(pop, matrix) ==
    [i \in 1 .. Len(pop) |-> connect(pop[i], [j \in 1 .. Len(matrix) |-> matrix[j][i]])]

\* neuron.connect(connection_matrix[i].clone()) for every neuron i
Connected(pop, matrix) ==
    [i \in 1 .. Len(pop) |-> connect(pop[i], matrix[i])]

AllFalse(n) == [k \in 1 .. n |-> FALSE]

WorldNew(excitatory, inhibitory, rs, raws) ==
    LET n == excitatory + inhibitory
        matrix == ConnectionMatrix(n, excitatory, raws)
    IN  /\ args = [excitatory |-> excitatory, inhibitory |-> inhibitory]
        /\ connection_matrix = matrix
        /\ neurons = Connected(Population(excitatory, inhibitory, rs), matrix)
        /\ action_potentials = <<AllFalse(n)>>
        /\ time_step = 0

N == Len(neurons)

Init ==
    /\ \E excitatory \in 0 .. MaxNeurons :
         \E inhibitory \in 0 .. MaxNeurons - excitatory :
           LET n == excitatory + inhibitory
           IN  \E rs \in [1 .. n -> ParamDraws] :
                 \E raws \in [1 .. n -> [1 .. n -> WeightDraws]] :
                   WorldNew(excitatory, inhibitory, rs, raws)
    /\ pc = "idle"
    /\ thalamic_input = <<>>
    /\ synaptic_input = <<>>
    /\ spikes = <<>>
    /\ done = {}
    /\ seen = [k \in 1 .. N |-> <<>>]
    /\ current = [k \in 1 .. N |-> F(0)]
    /\ pre = neurons
    /\ neurons0 = neurons
    /\ thal_log = <<>>
    /\ ctor_in = [path |-> "none"]
    /\ fresh = <<>>

----------------------------------------------------------------------------
(* simulator.rs: WorldState::step, called by main once per millisecond *)

\* lines 53-60: draw the noise, then clone action_potentials[ix - 1]; the
\* Vec is 0-based, so the source's index time_step is ix = time_step + 1
\* here; an index past the end of the Vec panics
StepBeginAt(ix) ==
    /\ pc = "idle"
    /\ time_step < MaxTicks
    /\ \E th \in [1 .. N -> ThalamicDraws] :
         /\ thalamic_input' = th
         /\ thal_log' = Append(thal_log, th)
    /\ IF ix \in 1 .. Len(action_potentials)
       THEN /\ synaptic_input' = action_potentials[ix]
            /\ pc' = "par"
       ELSE /\ synaptic_input' = <<>>
            /\ pc' = "panicked"
    /\ spikes' = AllFalse(N)
    /\ done' = {}
    /\ seen' = [k \in 1 .. N |-> <<>>]
    /\ pre' = neurons
    /\ UNCHANGED <<args, connection_matrix, neurons, action_potentials, time_step,
                   current, neurons0, ctor_in, fresh>>

\* variant: always reads the initial vector
StepBeginStale == StepBeginAt(1)

\* variant: reads one past the current index
StepBeginNextIndex == StepBeginAt(time_step + 2)

StepBegin == StepBeginAt(time_step + 1)

\* lines 63-68: the closure of the parallel map, run for neuron k by
\* whichever worker gets to it, with syn as its synaptic input
ParStepWith(k, syn) ==
    /\ pc = "par"
    /\ k \in (1 .. N) \ done
    /\ LET r == step(neurons[k], thalamic_input[k], syn)
       IN  /\ neurons' = [neurons EXCEPT ![k] = r.neuron]
           /\ spikes' = [spikes EXCEPT ![k] = r.spike]
           /\ current' = [current EXCEPT ![k] = r.syn_sum]
    /\ seen' = [seen EXCEPT ![k] = syn]
    /\ done' = done \cup {k}
    /\ UNCHANGED <<args, connection_matrix, action_potentials, time_step, pc,
                   thalamic_input, synaptic_input, pre, neurons0, thal_log,
                   ctor_in, fresh>>

\* variant: the closure also sees the flags already produced in this tick
ParStepShared(k) ==
    ParStepWith(k, [j \in 1 .. N |-> synaptic_input[j] \/ spikes[j]])

\* variant: a non-finite v or u is trapped and the run stops
ParStepTrapping(k) ==
    /\ pc = "par"
    /\ k \in (1 .. N) \ done
    /\ LET r == step(neurons[k], thalamic_input[k], synaptic_input)
       IN  /\ neurons' = [neurons EXCEPT ![k] = r.neuron]
           /\ spikes' = [spikes EXCEPT ![k] = r.spike]
           /\ current' = [current EXCEPT ![k] = r.syn_sum]
           /\ pc' = IF IsFinite(r.neuron.v) /\ IsFinite(r.neuron.u)
                    THEN "par" ELSE "panicked"
    /\ seen' = [seen EXCEPT ![k] = synaptic_input]
    /\ done' = done \cup {k}
    /\ UNCHANGED <<args, connection_matrix, action_potentials, time_step,
                   thalamic_input, synaptic_input, pre, neurons0, thal_log,
                   ctor_in, fresh>>

ParStep(k) == ParStepWith(k, synaptic_input)

\* collect() returns once every closure has run; lines 70-71 follow
StepEndWith(ts, history) ==
    /\ pc = "par"
    /\ done = 1 .. N
    /\ time_step' = ts
    /\ action_potentials' = history
    /\ pc' = "idle"
    /\ UNCHANGED <<args, connection_matrix, neurons, thalamic_input, synaptic_input,
                   spikes, done, seen, current, pre, neurons0, thal_log,
                   ctor_in, fresh>>

\* variant: pushes without advancing the counter
StepEndNoTick == StepEndWith(time_step, Append(action_potentials, spikes))

\* variant: inserts the new vector at the front instead of pushing it
StepEndPrepend == StepEndWith(time_step + 1, <<spikes>> \o action_potentials)

StepEnd == StepEndWith(time_step + 1, Append(action_potentials, spikes))

\* the map of lines 63-68 run in index order over the first k neurons
RECURSIVE SeqTick(_, _, _, _)
SeqTick(ns, th, syn, k) ==
    IF k = 0 THEN [neurons |-> ns, spikes |-> AllFalse(Len(ns))]
    ELSE LET p == SeqTick(ns, th, syn, k - 1)
             r == step(p.neurons[k], th[k], syn)
         IN  [neurons |-> [p.neurons EXCEPT ![k] = r.neuron],
              spikes |-> [p.spikes EXCEPT ![k] = r.spike]]

\* main's loop: t steps from the neurons ns0 with the noise vectors log[1..t]
RECURSIVE Replay(_, _, _)
Replay(ns0, log, t) ==
    IF t = 0 THEN [neurons |-> ns0, history |-> <<AllFalse(Len(ns0))>>]
    ELSE LET p == Replay(ns0, log, t - 1)
             r == SeqTick(p.neurons, log[t], p.history[t], Len(ns0))
         IN  [neurons |-> r.neurons, history |-> Append(p.history, r.spikes)]

Next ==
    \/ StepBegin
    \/ \E k \in 1 .. MaxNeurons + 1 : ParStep(k)
    \/ StepEnd

Spec == Init /\ [][Next]_vars

----------------------------------------------------------------------------
(* the two constructors, applied to every type and every draw *)

CtorInputs ==
    {[path |-> "from_synapse_type", ty |-> st, r |-> r] :
        st \in SynapseType, r \in GenRange}
    \cup
    {[path |-> "from_neuron_type", ty |-> nt, r |-> r] :
        nt \in NeuronType, r \in GenRange}

InitCtor ==
    /\ ctor_in \in CtorInputs
    /\ fresh = <<>>
    /\ args = [excitatory |-> 0, inhibitory |-> 0]
    /\ connection_matrix = <<>>
    /\ neurons = <<>>
    /\ action_potentials = <<>>
    /\ time_step = 0
    /\ pc = "ctor"
    /\ thalamic_input = <<>>
    /\ synaptic_input = <<>>
    /\ spikes = <<>>
    /\ done = {}
    /\ seen = <<>>
    /\ current = <<>>
    /\ pre = <<>>
    /\ neurons0 = <<>>
    /\ thal_log = <<>>

CallFromSynapseType ==
    /\ ctor_in.path = "from_synapse_type"
    /\ fresh = <<>>
    /\ fresh' = <<from_synapse_type(ctor_in.ty, ctor_in.r)>>
    /\ UNCHANGED <<worldVars, ctor_in>>

CallFromNeuronType ==
    /\ ctor_in.path = "from_neuron_type"
    /\ fresh = <<>>
    /\ fresh' = <<from_neuron_type(ctor_in.ty, ctor_in.r)>>
    /\ UNCHANGED <<worldVars, ctor_in>>

NextCtor == CallFromSynapseType \/ CallFromNeuronType

SpecCtor == InitCtor /\ [][NextCtor]_vars

----------------------------------------------------------------------------
(* Properties *)

\* C1: in every reachable state the number of stored spike vectors is the
\* tick counter plus one, the tick counter is the number of completed step()
\* calls, and before any step the history is the one all-false vector
HistoryLength ==
    /\ Len(action_potentials) = time_step + 1
    /\ pc = "idle" => time_step = Len(thal_log)
    /\ pc = "par" => time_step + 1 = Len(thal_log)
    /\ time_step = 0 => action_potentials = <<AllFalse(N)>>

HistoryLengthWitness ==
    /\ pc = "idle"
    /\ N = MaxNeurons
    /\ time_step = MaxTicks
    /\ Len(action_potentials) = MaxTicks + 1

\* C2: one-tick delay: while the tick that will append index t+1 runs, and
\* once it has appended, the synaptic input every neuron was handed is the
\* vector stored at index t (1-based t+1), the all-false vector when t = 0
OneTickDelay ==
    /\ pc = "par" =>
         /\ synaptic_input = action_potentials[time_step + 1]
         /\ \A k \in done : seen[k] = action_potentials[time_step + 1]
         /\ time_step = 0 => synaptic_input = AllFalse(N)
    /\ (pc = "idle" /\ time_step > 0) =>
         \A k \in 1 .. N : seen[k] = action_potentials[time_step]

\* a third tick has run on the spikes of the second, which differ from the
\* initial vector and from the third tick's own result
OneTickDelayWitness ==
    /\ pc = "idle"
    /\ time_step >= 3
    /\ N >= 1
    /\ action_potentials[time_step] # action_potentials[1]
    /\ action_potentials[time_step] # action_potentials[time_step + 1]
    /\ action_potentials[time_step] # action_potentials[time_step - 1]
    /\ \A k \in 1 .. N : seen[k] = action_potentials[time_step]

\* what one step of the system may do to the history
AppendOnlyStep ==
    /\ \A t \in 1 .. Len(action_potentials) :
         /\ t <= Len(action_potentials')
         /\ action_potentials'[t] = action_potentials[t]
    /\ IF pc = "par" /\ pc' = "idle"
       THEN Len(action_potentials') = Len(action_potentials) + 1
       ELSE action_potentials' = action_potentials
    /\ action_potentials'[1] = AllFalse(Len(neurons'))

\* C4: the history is append-only: a step() leaves every stored vector where
\* it was and adds exactly one at the end, nothing else touches the history,
\* and entry 0 stays the all-false vector of length N
AppendOnly == (action_potentials[1] = AllFalse(N)) /\ [][AppendOnlyStep]_vars

\* three ticks in, the latest stored vectors differ and the earlier one holds
\* a spike
AppendOnlyWitness ==
    /\ pc = "idle"
    /\ time_step >= 3
    /\ \E k \in 1 .. N : action_potentials[time_step][k]
    /\ action_potentials[time_step + 1] # action_potentials[time_step]
    /\ action_potentials[1] = AllFalse(N)

NonFinite(neuron) == ~IsFinite(neuron.v) \/ ~IsFinite(neuron.u)

\* C3: the updates of one tick are independent: whatever the order in which
\* the workers have run them, a neuron that has been updated holds the result
\* of its own step on its own pre-tick state, its own sample and the shared
\* snapshot, one that has not is untouched, entry k of the result is neuron
\* k's flag, and between ticks the neurons and the whole history are those
\* of the index-order run on the same draws
Deterministic ==
    /\ pc = "par" =>
         \A k \in 1 .. N :
            IF k \in done
            THEN LET r == step(pre[k], thalamic_input[k], synaptic_input)
                 IN  neurons[k] = r.neuron /\ spikes[k] = r.spike
            ELSE neurons[k] = pre[k]
    /\ pc = "idle" =>
         LET r == Replay(neurons0, thal_log, time_step)
         IN  action_potentials = r.history /\ neurons = r.neurons

\* the last neuron ran before the first and spiked, after a tick in which
\* the first one spiked
DeterministicWitness ==
    /\ pc = "par"
    /\ N = MaxNeurons
    /\ done = {N}
    /\ spikes[N]
    /\ synaptic_input[1]

\* C6: a step reports a spike exactly when the potential after the two
\* half-steps is >= 30; then v is the neuron's c and u is the recovered u plus
\* its d; otherwise v and u are the integrated values
SpikeReset ==
    \A k \in done :
        LET n  == pre[k]
            i  == Add(BaseCurrent(n.synapse_type, thalamic_input[k]),
                      SynapticSum(synaptic_input, n.connection_weights))
            v2 == HalfStep(HalfStep(n.v, n.u, i), n.u, i)
            u1 == Recover(n.parameters, v2, n.u)
        IN  /\ spikes[k] <=> Ge(v2, Threshold)
            /\ spikes[k] => /\ neurons[k].v = n.parameters.c
                            /\ neurons[k].u = Add(u1, n.parameters.d)
            /\ ~spikes[k] => /\ neurons[k].v = v2
                             /\ neurons[k].u = u1

\* a finite spike of a neuron whose c is not the default, and in the same
\* tick a neuron left below its reset value
SpikeResetWitness ==
    /\ \E k \in done :
         /\ spikes[k]
         /\ IsFinite(neurons[k].u)
         /\ neurons[k].v = neurons[k].parameters.c
         /\ neurons[k].parameters.c # Lit(-65, 1)
         /\ neurons[k].u # pre[k].u
    /\ \E k \in done : ~spikes[k] /\ Lt(neurons[k].v, neurons[k].parameters.c)

\* C7: zero diagonal, off-diagonal cells of an excitatory column in [0, 0.5),
\* of an inhibitory column in (-1, 0]; neuron i holds row i, of length N;
\* the first `excitatory` neurons are Excitatory and the rest Inhibitory
Connectivity ==
    /\ N = args.excitatory + args.inhibitory
    /\ Len(connection_matrix) = N
    /\ \A i \in 1 .. N :
         /\ Len(connection_matrix[i]) = N
         /\ neurons[i].connection_weights = connection_matrix[i]
         /\ neurons[i].synapse_type =
               IF i <= args.excitatory THEN "Excitatory" ELSE "Inhibitory"
         /\ \A j \in 1 .. N :
              LET w == connection_matrix[i][j]
              IN  IF i = j THEN w = F(0)
                  ELSE IF j <= args.excitatory
                       THEN Ge(w, F(0)) /\ Lt(w, Lit(1, 2))
                       ELSE Lt(Lit(-1, 1), w) /\ Ge(F(0), w)

\* a mixed network that has run, holding the largest weights the draws give
ConnectivityWitness ==
    /\ args.excitatory = 1
    /\ args.inhibitory = 1
    /\ time_step >= 1
    /\ connection_matrix[2][1] = F((Scale - 2) \div 2)
    /\ connection_matrix[1][2] = F(2 - Scale)

\* C8: the network of no neurons is a no-op: no index leaves the neuron
\* list, the weights or the history, and every stored vector is empty
EmptyNetwork ==
    (args.excitatory = 0 /\ args.inhibitory = 0) =>
        /\ pc # "panicked"
        /\ neurons = <<>>
        /\ connection_matrix = <<>>
        /\ time_step + 1 \in 1 .. Len(action_potentials)
        /\ \A t \in 1 .. Len(action_potentials) : action_potentials[t] = <<>>

EmptyNetworkWitness ==
    /\ args.excitatory = 0
    /\ args.inhibitory = 0
    /\ pc = "idle"
    /\ time_step = MaxTicks
    /\ Len(action_potentials) = MaxTicks + 1

\* C9 as stated: a run is never between two ticks, a vector appended and
\* ready to go on, with a neuron whose v or u is non-finite
NoSilentContinue ==
    (pc = "idle" /\ time_step > 0) => \A k \in 1 .. N : ~NonFinite(neurons[k])

\* C9 amended: step() never aborts and nothing is trapped: whatever v and u
\* have become, the run is never in a fault, a tick that ends has updated
\* every neuron, and every stored vector has one entry per neuron
NeverAborts ==
    /\ pc \in {"idle", "par"}
    /\ (pc = "idle" /\ time_step > 0) => done = 1 .. N
    /\ \A t \in 1 .. Len(action_potentials) : Len(action_potentials[t]) = N

\* a tick that began with a non-finite neuron has completed and been pushed
NeverAbortsWitness ==
    /\ pc = "idle"
    /\ time_step >= 2
    /\ \E k \in 1 .. N : NonFinite(pre[k])
    /\ \E k \in 1 .. N : IsNaN(neurons[k].v) \/ IsNaN(neurons[k].u)

\* the sum, in index order, of the cells of row i of the matrix at the
\* columns whose flag is set
RECURSIVE RowSum(_, _, _)
RowSum(i, flags, j) ==
    IF j = 0 THEN F(0)
    ELSE IF flags[j] THEN Add(RowSum(i, flags, j - 1), connection_matrix[i][j])
         ELSE RowSum(i, flags, j - 1)

Without(flags, j) == [flags EXCEPT ![j] = FALSE]

\* C10: the synaptic current a neuron's step added is the sum of the cells
\* (i, j) of the matrix over the neurons j that spiked in the previous tick;
\* an excitatory j never lowers it, an inhibitory j never raises it, and the
\* neuron's own spike adds nothing
CurrentFromMatrix ==
    \A i \in done :
        /\ current[i] = RowSum(i, synaptic_input, N)
        /\ \A j \in 1 .. N :
              synaptic_input[j] =>
                 LET rest == RowSum(i, Without(synaptic_input, j), N)
                 IN  /\ j <= args.excitatory => Ge(current[i], rest)
                     /\ j > args.excitatory => Ge(rest, current[i])
                     /\ j = i => current[i] = rest

\* an excitatory neuron has taken a negative current from an inhibitory
\* spike and an inhibitory one a positive current from an excitatory spike
CurrentFromMatrixWitness ==
    /\ args.excitatory = 1
    /\ args.inhibitory = 1
    /\ done = {1, 2}
    /\ synaptic_input = <<TRUE, TRUE>>
    /\ Lt(current[1], F(0))
    /\ Lt(F(0), current[2])

\* C5 as stated: a neuron fresh from either constructor has v = -65 and
\* u = b * -65 for the b stored in its own parameters
FreshState ==
    fresh # <<>> =>
        /\ fresh[1].v = Lit(-65, 1)
        /\ fresh[1].u = Mul(fresh[1].parameters.b, Lit(-65, 1))

====
